---- MODULE Spec2Model ----
(***************************************************************************)
(* pydice: dice-roll notation parser and roller (src/pydice/dice.py).      *)
(*                                                                         *)
(* A Python string is a sequence of one-character strings.  Python's None  *)
(* is the empty sequence where the value is otherwise a string or a        *)
(* one-element sequence (an option).                                       *)
(***************************************************************************)
EXTENDS Integers, Sequences, FiniteSets, TLC

VARIABLES
    parts,             \* the tokens the expression was written from
    expression,        \* argument `string` of roll()
    ctor,              \* arguments of Die(...) (Die specification only)
    pc,                \* position inside roll()
    string,            \* roll(): `string` after whitespace removal
    dice_matches,      \* roll(): DICE_PATTERN.findall(string)
    modifier_matches,  \* roll(): MODIFIER_PATTERN.findall(edited_string)
    idx,               \* roll(): number of dice groups already parsed
    heap,              \* every Die object created so far, in creation order
    rolls,             \* the Roll objects built by roll_ndx, one per group
    dice,              \* roll(): the list `dice` (indices into heap)
    total_mod,         \* roll(): `total_mod`
    ret,               \* the Roll returned by roll(): <<>> or <<Roll>>
    err                \* name of the exception raised, "" when none

vars == <<parts, expression, ctor, pc, string, dice_matches, modifier_matches,
          idx, heap, rolls, dice, total_mod, ret, err>>

----------------------------------------------------------------------------
(* Bounds of the model *)

MaxN == 3
MaxX == 2
MaxK == 4
MaxM == 2
MaxParts == 4
MaxRaw == 3
MaxFace == 3
MaxFaceLen == 2
MaxMod == 3
MaxRolls == 2

----------------------------------------------------------------------------
(* Characters, integers and strings *)

\* the characters \d matches in a Python 3 str pattern, which are the ones
\* int() reads as decimal digits: nineteen rows of ten, each row one script
\* in the order of its values 0..9 (ASCII, Extended Arabic-Indic, NKo,
\* Bengali, Gujarati, Tamil, Kannada, Sinhala, Lao, Myanmar Shan, Khmer, New
\* Tai Lue, Tai Tham Hora, Tai Tham Tham, Sundanese, Saurashtra, Javanese,
\* Myanmar Tai Laing, Meetei Mayek); the remaining decimal digits of Unicode
\* are characters a string of this module cannot hold
DigitChars ==
    <<
     "0", "1", "2", "3", "4", "5", "6", "7", "8", "9",
     "۰", "۱", "۲", "۳", "۴", "۵", "۶", "۷", "۸", "۹",
     "߀", "߁", "߂", "߃", "߄", "߅", "߆", "߇", "߈", "߉",
     "০", "১", "২", "৩", "৪", "৫", "৬", "৭", "৮", "৯",
     "૦", "૧", "૨", "૩", "૪", "૫", "૬", "૭", "૮", "૯",
     "௦", "௧", "௨", "௩", "௪", "௫", "௬", "௭", "௮", "௯",
     "೦", "೧", "೨", "೩", "೪", "೫", "೬", "೭", "೮", "೯",
     "෦", "෧", "෨", "෩", "෪", "෫", "෬", "෭", "෮", "෯",
     "໐", "໑", "໒", "໓", "໔", "໕", "໖", "໗", "໘", "໙",
     "႐", "႑", "႒", "႓", "႔", "႕", "႖", "႗", "႘", "႙",
     "០", "១", "២", "៣", "៤", "៥", "៦", "៧", "៨", "៩",
     "᧐", "᧑", "᧒", "᧓", "᧔", "᧕", "᧖", "᧗", "᧘", "᧙",
     "᪀", "᪁", "᪂", "᪃", "᪄", "᪅", "᪆", "᪇", "᪈", "᪉",
     "᪐", "᪑", "᪒", "᪓", "᪔", "᪕", "᪖", "᪗", "᪘", "᪙",
     "᮰", "᮱", "᮲", "᮳", "᮴", "᮵", "᮶", "᮷", "᮸", "᮹",
     "꣐", "꣑", "꣒", "꣓", "꣔", "꣕", "꣖", "꣗", "꣘", "꣙",
     "꧐", "꧑", "꧒", "꧓", "꧔", "꧕", "꧖", "꧗", "꧘", "꧙",
     "꧰", "꧱", "꧲", "꧳", "꧴", "꧵", "꧶", "꧷", "꧸", "꧹",
     "꯰", "꯱", "꯲", "꯳", "꯴", "꯵", "꯶", "꯷", "꯸", "꯹"
    >>

Digits == {DigitChars[i] : i \in 1..Len(DigitChars)}

IsDigit(c) == c \in Digits

\* the value int() gives the digit c
DigitVal(c) == ((CHOOSE i \in 1..Len(DigitChars) : DigitChars[i] = c) - 1) % 10

\* the characters \s matches in a Python 3 str pattern: tab, LF, VT, FF, CR,
\* FS, GS, RS, US, space, NEL (U+0085), NBSP (U+00A0), U+1680; also U+2000
\* to U+200A, U+2028, U+2029, U+202F, U+205F and U+3000, which a string of
\* this module cannot hold
Whitespace ==
    {"\t", "\n", "", "\f", "\r", "", "", "", "", " ",
     "", " ", " "}

IsSpace(c) == c \in Whitespace

IsSign(c) == c \in {"+", "-"}

IsKeepOp(c) == c \in {"^", "v"}

Contains(s, c) == \E i \in 1..Len(s) : s[i] = c

Remove(s, c) == SelectSeq(s, LAMBDA ch : ch # c)

\* int() of a non-empty string of digits (int('') raises ValueError; \d+
\* never delivers it)
RECURSIVE int_digits(_)
int_digits(s) ==
    IF Len(s) = 1 THEN DigitVal(s[1])
    ELSE 10 * int_digits(SubSeq(s, 1, Len(s) - 1)) + DigitVal(s[Len(s)])

\* int() of an optionally signed decimal string
int(s) ==
    IF s[1] = "-" THEN 0 - int_digits(Tail(s))
    ELSE IF s[1] = "+" THEN int_digits(Tail(s))
    ELSE int_digits(s)

\* str() of a natural number
RECURSIVE str(_)
str(n) ==
    IF n < 10 THEN <<DigitChars[n + 1]>>
    ELSE str(n \div 10) \o <<DigitChars[(n % 10) + 1]>>

\* first position >= i of s that holds no digit (Len(s)+1 when there is none)
RECURSIVE DigitRunEnd(_, _)
DigitRunEnd(s, i) ==
    IF i <= Len(s) /\ IsDigit(s[i]) THEN DigitRunEnd(s, i + 1) ELSE i

----------------------------------------------------------------------------
(* The regular expressions *)

\* re.sub(r'\s+', '', string)
strip_whitespace(s) == SelectSeq(s, LAMBDA ch : ~IsSpace(ch))

\* DICE_PATTERN = [+-]?\d+d\d+[v^]?\d* tried at position i: the position
\* after the match, 0 when there is no match at i
DICE_PATTERN_end(s, i) ==
    LET a == IF i <= Len(s) /\ IsSign(s[i]) THEN i + 1 ELSE i
        b == DigitRunEnd(s, a)
        c == DigitRunEnd(s, b + 1)
        e == IF c <= Len(s) /\ IsKeepOp(s[c]) THEN c + 1 ELSE c
    IN  IF b > a /\ b <= Len(s) /\ s[b] = "d" /\ c > b + 1
        THEN DigitRunEnd(s, e)
        ELSE 0

RECURSIVE DICE_PATTERN_scan(_, _)
DICE_PATTERN_scan(s, i) ==
    IF i > Len(s) THEN <<>>
    ELSE LET e == DICE_PATTERN_end(s, i)
         IN  IF e = 0 THEN DICE_PATTERN_scan(s, i + 1)
             ELSE <<SubSeq(s, i, e - 1)>> \o DICE_PATTERN_scan(s, e)

\* DICE_PATTERN.findall(string)
DICE_PATTERN_findall(s) == DICE_PATTERN_scan(s, 1)

RECURSIVE DICE_PATTERN_replace(_, _)
DICE_PATTERN_replace(s, i) ==
    IF i > Len(s) THEN <<>>
    ELSE LET e == DICE_PATTERN_end(s, i)
         IN  IF e = 0 THEN <<s[i]>> \o DICE_PATTERN_replace(s, i + 1)
             ELSE <<"X">> \o DICE_PATTERN_replace(s, e)

\* DICE_PATTERN.sub("X", string)
DICE_PATTERN_sub(s) == DICE_PATTERN_replace(s, 1)

\* variant of MODIFIER_PATTERN_end with an optional sign: [+-]?\d+
MODIFIER_PATTERN_end_unsigned(s, i) ==
    LET a == IF i <= Len(s) /\ IsSign(s[i]) THEN i + 1 ELSE i
    IN  IF DigitRunEnd(s, a) > a THEN DigitRunEnd(s, a) ELSE 0

\* MODIFIER_PATTERN = [+-]\d+ tried at position i
MODIFIER_PATTERN_end(s, i) ==
    IF i <= Len(s) /\ IsSign(s[i]) /\ DigitRunEnd(s, i + 1) > i + 1
    THEN DigitRunEnd(s, i + 1)
    ELSE 0

RECURSIVE MODIFIER_PATTERN_scan(_, _)
MODIFIER_PATTERN_scan(s, i) ==
    IF i > Len(s) THEN <<>>
    ELSE LET e == MODIFIER_PATTERN_end(s, i)
         IN  IF e = 0 THEN MODIFIER_PATTERN_scan(s, i + 1)
             ELSE <<SubSeq(s, i, e - 1)>> \o MODIFIER_PATTERN_scan(s, e)

\* MODIFIER_PATTERN.findall(edited_string)
MODIFIER_PATTERN_findall(s) == MODIFIER_PATTERN_scan(s, 1)

\* ROLL_STRING_PATTERN.match(string) and m.groupdict():
\* (?P<n_dice>\d+)d(?P<x_size>\d+)(?P<keep>[\^v]{1}\d+)?(?P<mod>[+-]{1}\d+)?
\* anchored at the start; a group that did not take part is None (<<>>)
ROLL_STRING_PATTERN_match(s) ==
    LET b  == DigitRunEnd(s, 1)
        c  == DigitRunEnd(s, b + 1)
        ke == DigitRunEnd(s, c + 1)
        hasKeep == c <= Len(s) /\ IsKeepOp(s[c]) /\ ke > c + 1
        e  == IF hasKeep THEN ke ELSE c
        me == DigitRunEnd(s, e + 1)
        hasMod == e <= Len(s) /\ IsSign(s[e]) /\ me > e + 1
    IN  IF b > 1 /\ b <= Len(s) /\ s[b] = "d" /\ c > b + 1
        THEN [matched |-> TRUE,
              n_dice  |-> SubSeq(s, 1, b - 1),
              x_size  |-> SubSeq(s, b + 1, c - 1),
              keep    |-> IF hasKeep THEN SubSeq(s, c, ke - 1) ELSE <<>>,
              mod     |-> IF hasMod THEN SubSeq(s, e, me - 1) ELSE <<>>]
        ELSE [matched |-> FALSE, n_dice |-> <<>>, x_size |-> <<>>,
              keep |-> <<>>, mod |-> <<>>]

----------------------------------------------------------------------------
(* Die, DN *)

Range(s) == {s[i] : i \in 1..Len(s)}

\* range(a, b)
range(a, b) == [i \in 1..(b - a) |-> a + i - 1]

\* for python 3 compatibility: cmp(a, b)
cmp(a, b) == (IF a > b THEN 1 ELSE 0) - (IF a < b THEN 1 ELSE 0)

\* Die.__init__ with roll_now=False, raw=None, name=None.  `drawn` is the
\* history of the faces that roll() drew for this die (raw is its last one).
Die_init(faces, mod, above_okay, below_okay) ==
    [faces      |-> faces,
     mod        |-> mod,
     above_okay |-> above_okay,
     below_okay |-> FALSE,
     raw        |-> <<>>,
     drawn      |-> <<>>]

\* Die.high_face: sorted(self.faces)[-1]
high_face(d) == CHOOSE x \in Range(d.faces) : \A y \in Range(d.faces) : y <= x

\* Die.low_face: sorted(self.faces)[0]
low_face(d) == CHOOSE x \in Range(d.faces) : \A y \in Range(d.faces) : x <= y

\* Die.result: <<>> is None
Die_result(d) ==
    IF d.raw # <<>>
    THEN LET r == d.raw[1] + d.mod
         IN  IF r > high_face(d) /\ ~d.above_okay THEN <<high_face(d)>>
             ELSE IF r < low_face(d) /\ ~d.below_okay THEN <<low_face(d)>>
             ELSE <<r>>
    ELSE <<>>

\* Die.roll with choice(self.faces) = face
Die_roll(d, face) == [d EXCEPT !.raw = <<face>>, !.drawn = Append(@, face)]

\* variant of DN whose faces start at 0: range(size + 1)
DN_from_zero(size) == Die_init(range(0, size + 1), 0, FALSE, FALSE)

\* DN.__init__
DN(size) == Die_init(range(1, size + 1), 0, FALSE, FALSE)

\* ndx(n_dice, x_size): the new Die objects
ndx(n_dice, x_size) == [n \in 1..n_dice |-> DN(x_size)]

----------------------------------------------------------------------------
(* Throw, Roll *)

\* the outcomes of choice() for the dice `ids` of heap h, one per die;
\* empty when some die has no face (choice raises IndexError)
Draws(h, ids) ==
    LET U == UNION {Range(h[ids[i]].faces) : i \in 1..Len(ids)}
    IN  {f \in [1..Len(ids) -> U] :
            \A i \in 1..Len(ids) : f[i] \in Range(h[ids[i]].faces)}

\* Throw.throw: [d.roll() for d in self.dice]
RECURSIVE Throw_throw(_, _, _)
Throw_throw(h, ids, draws) ==
    IF ids = <<>> THEN h
    ELSE Throw_throw([h EXCEPT ![Head(ids)] = Die_roll(@, Head(draws))],
                     Tail(ids), Tail(draws))

\* Throw.result
Throw_result(h, ids) == [i \in 1..Len(ids) |-> Die_result(h[ids[i]])[1]]

\* Roll.__init__ (the throw of its dice is Throw_throw)
Roll_init(ids, tm) ==
    [dice         |-> ids,
     total_mod    |-> tm,
     n_dice       |-> <<>>,
     x_size       |-> <<>>,
     dropped_dice |-> <<>>]

RECURSIVE SumSeq(_)
SumSeq(s) == IF s = <<>> THEN 0 ELSE Head(s) + SumSeq(Tail(s))

\* Roll.sum
Roll_sum(h, r) == SumSeq(Throw_result(h, r.dice))

\* Roll.total
Roll_total(h, r) == Roll_sum(h, r) + r.total_mod

\* Roll.raw_dice
Roll_raw_dice(r) == r.dice \o r.dropped_dice

\* the comparators of parse_dice_group and Roll.faces
keep_cmp(h, op, x, y) ==
    IF op = "^"
    THEN cmp(Die_result(h[y])[1], Die_result(h[x])[1])
    ELSE cmp(Die_result(h[x])[1], Die_result(h[y])[1])

\* sorted(ids, key=cmp_to_key(f)): a stable sort
RECURSIVE sorted(_, _, _)
sorted(h, ids, op) ==
    IF ids = <<>> THEN <<>>
    ELSE LET n == Len(ids)
             x == ids[n]
             s == sorted(h, SubSeq(ids, 1, n - 1), op)
         IN  SelectSeq(s, LAMBDA e : keep_cmp(h, op, e, x) <= 0)
             \o <<x>>
             \o SelectSeq(s, LAMBDA e : keep_cmp(h, op, e, x) > 0)

\* Roll.faces
Roll_faces(h, r) == Throw_result(h, sorted(h, r.dice, "v"))

\* variant of keep_slice that is off by one: s[:keep_n + 1]
keep_slice_wide(s, keep_n) ==
    SubSeq(s, 1, IF keep_n + 1 < Len(s) THEN keep_n + 1 ELSE Len(s))

\* s[:keep_n]
keep_slice(s, keep_n) ==
    SubSeq(s, 1, IF keep_n < Len(s) THEN keep_n ELSE Len(s))

\* s[keep_n:]
drop_slice(s, keep_n) == SubSeq(s, keep_n + 1, Len(s))

----------------------------------------------------------------------------
(* parse_dice_group, add_modifiers *)

\* variant of negative_dice that never rejects
negative_dice_never(d) == FALSE

\* parse_dice_group: the branch that raises NotImplementedError
negative_dice(d) == ~Contains(d, "+") /\ Contains(d, "-")

\* parse_dice_group: string.replace('+', '')
strip_plus(d) == IF Contains(d, "+") THEN Remove(d, "+") ELSE d

\* parse_dice_group: the "best of" part, on the Roll r of the group
keep_best(h, r, keep) ==
    IF keep # <<>>
    THEN LET keep_n == int(Tail(keep))
             s == sorted(h, r.dice, IF keep[1] = "^" THEN "^" ELSE "v")
         IN  [r EXCEPT !.dropped_dice = @ \o drop_slice(s, keep_n),
                       !.dice = keep_slice(s, keep_n)]
    ELSE r

\* variant of add_modifiers that adds a '-' modifier instead of subtracting it
RECURSIVE add_modifiers_abs(_)
add_modifiers_abs(ms) ==
    IF ms = <<>> THEN [ok |-> TRUE, total |-> 0]
    ELSE [ok |-> TRUE,
          total |-> add_modifiers_abs(Tail(ms)).total + int(Tail(Head(ms)))]

\* add_modifiers: ok is FALSE where it raises SyntaxError
RECURSIVE add_modifiers(_)
add_modifiers(ms) ==
    IF ms = <<>> THEN [ok |-> TRUE, total |-> 0]
    ELSE LET n == Len(ms)
             m == ms[n]
             rest == add_modifiers(SubSeq(ms, 1, n - 1))
         IN  IF ~rest.ok THEN rest
             ELSE IF m[1] = "+"
                  THEN [ok |-> TRUE, total |-> rest.total + int(Tail(m))]
             ELSE IF m[1] = "-"
                  THEN [ok |-> TRUE, total |-> rest.total - int(Tail(m))]
             ELSE [ok |-> FALSE, total |-> 0]

\* variant of extend that puts the new dice in front
extend_front(ds, new) == new \o ds

\* roll(): dice += parse_dice_group(d)
extend(ds, new) == ds \o new

\* roll(): if not dice_matches and not modifier_matches
no_tokens(dm, mm) == dm = <<>> /\ mm = <<>>

----------------------------------------------------------------------------
(* The expressions roll() is called with *)

Group(sign, n, x, op, k) ==
    [kind |-> "group", sign |-> sign, n |-> n, x |-> x, op |-> op, k |-> k]

Mod(sign, m) ==
    [kind |-> "mod", sign |-> sign, n |-> m, x |-> 0, op |-> "", k |-> 0]

Raw(ch) ==
    [kind |-> "raw", sign |-> ch, n |-> 0, x |-> 0, op |-> "", k |-> 0]

\* '{n}d{x}'.format(...), '{n}d{x}{plusminus}{mod}'.format(...)
Render_part(p) ==
    IF p.kind = "group"
    THEN (IF p.sign = "" THEN <<>> ELSE <<p.sign>>)
         \o str(p.n) \o <<"d">> \o str(p.x)
         \o (IF p.op = "" THEN <<>> ELSE <<p.op>> \o str(p.k))
    ELSE IF p.kind = "mod" THEN <<p.sign>> \o str(p.n)
    ELSE <<p.sign>>

RECURSIVE Render(_)
Render(ps) == IF ps = <<>> THEN <<>> ELSE Render_part(Head(ps)) \o Render(Tail(ps))

SeqsUpTo(S, lo, hi) == UNION {[1..n -> S] : n \in lo..hi}

PlainGroups ==
    {Group(s, n, x, "", 0) : s \in {"", "+", "-"}, n \in 0..MaxN, x \in 0..MaxX}

KeepGroups ==
    {Group(g.sign, g.n, g.x, ok[1], ok[2]) :
        g \in PlainGroups, ok \in {"^", "v"} \X (0..MaxK)}

FlatMods == {Mod(s, m) : s \in {"+", "-"}, m \in 0..MaxM}

\* one dice group, with a keep-spec or followed by a flat modifier
SingleExprs ==
    {<<g>> : g \in PlainGroups \cup KeepGroups}
    \cup {<<g, m>> : g \in PlainGroups, m \in FlatMods}

MultiShapes == {<<1, 2>>, <<2, 1>>}

\* one die of no side
EmptyShape == <<1, 0>>

MultiMods == {Mod("+", 2), Mod("-", 3)}

MultiRest ==
    {Group(s, nx[1], nx[2], "", 0) : s \in {"+", "-"}, nx \in MultiShapes}
    \cup {Group("+", EmptyShape[1], EmptyShape[2], "", 0)}
    \cup MultiMods

MultiFirst ==
    MultiRest
    \cup {Group("", nx[1], nx[2], "", 0) : nx \in MultiShapes \cup {EmptyShape}}

\* several dice groups and flat modifiers
MultiExprs ==
    {<<f>> \o r : f \in MultiFirst, r \in SeqsUpTo(MultiRest, 1, MaxParts - 1)}

RawAlphabet == {"1", "۱", "d", "+", "-", "^", "v", " ", "\f", "f"}

\* arbitrary short strings
RawExprs == {[i \in 1..Len(s) |-> Raw(s[i])] : s \in SeqsUpTo(RawAlphabet, 0, MaxRaw)}

----------------------------------------------------------------------------
(* roll(string) *)

Init ==
    /\ parts \in SingleExprs \cup MultiExprs \cup RawExprs
    /\ expression = Render(parts)
    /\ ctor = <<>>
    /\ pc = "start"
    /\ string = <<>>
    /\ dice_matches = <<>>
    /\ modifier_matches = <<>>
    /\ idx = 0
    /\ heap = <<>>
    /\ rolls = <<>>
    /\ dice = <<>>
    /\ total_mod = 0
    /\ ret = <<>>
    /\ err = ""

Raise(e) == pc' = "error" /\ err' = e

\* roll(): whitespace removal, the two findall, the parse error
Tokenize ==
    /\ pc = "start"
    /\ LET s  == strip_whitespace(expression)
           dm == DICE_PATTERN_findall(s)
           edited_string == DICE_PATTERN_sub(s)
           mm == MODIFIER_PATTERN_findall(edited_string)
       IN  /\ string' = s
           /\ dice_matches' = dm
           /\ modifier_matches' = mm
           /\ IF no_tokens(dm, mm)
              THEN Raise("Exception")
              ELSE pc' = "groups" /\ err' = err
    /\ UNCHANGED <<parts, expression, ctor, idx, heap, rolls, dice, total_mod, ret>>

\* roll(): one turn of `for d in dice_matches: dice += parse_dice_group(d)`,
\* with roll_ndx, Roll.__init__ and Throw.throw inside it
ParseGroup ==
    /\ pc = "groups"
    /\ idx < Len(dice_matches)
    /\ LET d == dice_matches[idx + 1]
           m == ROLL_STRING_PATTERN_match(strip_plus(d))
       IN  IF negative_dice(d)
           THEN /\ Raise("NotImplementedError")
                /\ UNCHANGED <<idx, heap, rolls, dice>>
           ELSE IF ~m.matched
           THEN /\ Raise("AttributeError")
                /\ UNCHANGED <<idx, heap, rolls, dice>>
           ELSE LET n_dice == int(m.n_dice)
                    x_size == int(m.x_size)
                    mod == IF m.mod # <<>> THEN int(m.mod) ELSE 0
                    new == ndx(n_dice, x_size)
                    h1  == heap \o new
                    ids == [i \in 1..Len(new) |-> Len(heap) + i]
                IN  IF Draws(h1, ids) = {}
                    THEN /\ Raise("IndexError")
                         /\ heap' = h1
                         /\ UNCHANGED <<idx, rolls, dice>>
                    ELSE \E draws \in Draws(h1, ids) :
                         LET h2 == Throw_throw(h1, ids, draws)
                             r0 == [Roll_init(ids, mod) EXCEPT
                                        !.n_dice = <<n_dice>>,
                                        !.x_size = <<x_size>>]
                             r  == keep_best(h2, r0, m.keep)
                         IN  /\ heap' = h2
                             /\ rolls' = Append(rolls, r)
                             /\ dice' = extend(dice, r.dice)
                             /\ idx' = idx + 1
                             /\ UNCHANGED <<pc, err>>
    /\ UNCHANGED <<parts, expression, ctor, string, dice_matches,
                   modifier_matches, total_mod, ret>>

\* roll(): total_mod = add_modifiers(modifier_matches)
AddModifiers ==
    /\ pc = "groups"
    /\ idx = Len(dice_matches)
    /\ LET a == add_modifiers(modifier_matches)
       IN  IF a.ok
           THEN total_mod' = a.total /\ pc' = "assemble" /\ err' = err
           ELSE total_mod' = total_mod /\ Raise("SyntaxError")
    /\ UNCHANGED <<parts, expression, ctor, string, dice_matches,
                   modifier_matches, idx, heap, rolls, dice, ret>>

\* roll(): r = Roll(dice, total_mod=total_mod); return r
\* Roll.__init__ builds Throw(dice, roll_now=True), which throws the dice
MakeRoll ==
    /\ pc = "assemble"
    /\ IF Draws(heap, dice) = {}
       THEN Raise("IndexError") /\ UNCHANGED <<heap, ret>>
       ELSE \E draws \in Draws(heap, dice) :
                /\ heap' = Throw_throw(heap, dice, draws)
                /\ ret' = <<Roll_init(dice, total_mod)>>
                /\ pc' = "done"
                /\ err' = err
    /\ UNCHANGED <<parts, expression, ctor, string, dice_matches,
                   modifier_matches, idx, rolls, dice, total_mod>>

Next == Tokenize \/ ParseGroup \/ AddModifiers \/ MakeRoll

Spec == Init /\ [][Next]_vars

----------------------------------------------------------------------------
(* Die(faces, mod, above_okay, below_okay, roll_now) on its own *)

DieArgs ==
    [faces      : SeqsUpTo(1..MaxFace, 1, MaxFaceLen),
     mod        : (0 - MaxMod)..MaxMod,
     above_okay : BOOLEAN,
     below_okay : BOOLEAN,
     roll_now   : BOOLEAN]

DieInit ==
    /\ ctor \in DieArgs
    /\ pc = "new"
    /\ parts = <<>>
    /\ expression = <<>>
    /\ string = <<>>
    /\ dice_matches = <<>>
    /\ modifier_matches = <<>>
    /\ idx = 0
    /\ heap = <<>>
    /\ rolls = <<>>
    /\ dice = <<>>
    /\ total_mod = 0
    /\ ret = <<>>
    /\ err = ""

\* Die.__init__, with `if roll_now: self.roll()`
DieNew ==
    /\ pc = "new"
    /\ LET d == Die_init(ctor.faces, ctor.mod, ctor.above_okay, ctor.below_okay)
       IN  IF ctor.roll_now
           THEN \E i \in 1..Len(d.faces) : heap' = <<Die_roll(d, d.faces[i])>>
           ELSE heap' = <<d>>
    /\ pc' = "die"
    /\ UNCHANGED <<parts, expression, ctor, string, dice_matches,
                   modifier_matches, idx, rolls, dice, total_mod, ret, err>>

\* Die.roll
DieRoll ==
    /\ pc = "die"
    /\ Len(heap[1].drawn) < MaxRolls
    /\ \E i \in 1..Len(heap[1].faces) :
           heap' = [heap EXCEPT ![1] = Die_roll(@, heap[1].faces[i])]
    /\ UNCHANGED <<parts, expression, ctor, pc, string, dice_matches,
                   modifier_matches, idx, rolls, dice, total_mod, ret, err>>

DieNext == DieNew \/ DieRoll

DieSpec == DieInit /\ [][DieNext]_vars

----------------------------------------------------------------------------
(* Properties *)

Min(a, b) == IF a < b THEN a ELSE b

KSubsets(n, k) == {S \in SUBSET (1..n) : Cardinality(S) = k}

RECURSIVE SumOver(_, _)
SumOver(f, S) ==
    IF S = {} THEN 0
    ELSE LET i == CHOOSE j \in S : TRUE IN f[i] + SumOver(f, S \ {i})

\* the expression is one dice group 'NdX...' without sign, N >= 1, X >= 1
OneGroup(ps) ==
    /\ Len(ps) >= 1
    /\ ps[1].kind = "group"
    /\ ps[1].sign = ""
    /\ ps[1].n >= 1
    /\ ps[1].x >= 1

\* the expression is 'NdX'
IsNdX == Len(parts) = 1 /\ OneGroup(parts) /\ parts[1].op = ""

\* the expression is 'NdX^K' or 'NdXvK'
IsNdXKeep == Len(parts) = 1 /\ OneGroup(parts) /\ parts[1].op \in {"^", "v"}

\* the expression is 'NdX+M' or 'NdX-M'
IsNdXMod ==
    Len(parts) = 2 /\ OneGroup(parts) /\ parts[1].op = "" /\ parts[2].kind = "mod"

\* the results the returned Roll's dice carry
Results == Throw_result(heap, ret[1].dice)

\* the results first rolled for the n dice of the only group
Original(n) == [i \in 1..n |-> heap[i].drawn[1]]

\* C1: for 'NdX^K' / 'NdXvK' with 1 <= K <= N and X >= 1 the returned Roll
\* holds K dice whose results are the K largest (smallest) of the N results
\* rolled for the group: its sum is >= (<=) the sum of every K-subset of
\* those N results.
C1_KeepBest ==
    (IsNdXKeep /\ 1 <= parts[1].k /\ parts[1].k <= parts[1].n /\ pc = "done") =>
        LET n == parts[1].n
            k == parts[1].k
            s == Roll_sum(heap, ret[1])
        IN  /\ Len(ret[1].dice) = k
            /\ \A S \in KSubsets(n, k) :
                   IF parts[1].op = "^" THEN s >= SumOver(Original(n), S)
                                        ELSE s <= SumOver(Original(n), S)

\* C2: for 'NdX' with N >= 1 and X >= 1 roll() returns a Roll that holds
\* exactly N dice, each with a result in 1..X.
C2_NDiceInRange ==
    IsNdX =>
        /\ pc # "error"
        /\ pc = "done" =>
               /\ Len(ret[1].dice) = parts[1].n
               /\ \A i \in 1..Len(ret[1].dice) :
                      /\ Die_result(heap[ret[1].dice[i]]) # <<>>
                      /\ Results[i] \in 1..parts[1].x

C2_Witness ==
    /\ pc = "done"
    /\ IsNdX
    /\ expression = <<"3", "d", "2">>
    /\ Len(ret[1].dice) = 3
    /\ Results = <<1, 2, 2>>

\* the signed modifier of 'NdX', 'NdX+M', 'NdX-M'
SignedM ==
    IF Len(parts) = 1 THEN 0
    ELSE IF parts[2].sign = "-" THEN 0 - parts[2].n ELSE parts[2].n

\* C3: for 'NdX', 'NdX+M', 'NdX-M' (N >= 1, X >= 1, M >= 0, m the signed
\* modifier) the returned Roll has N + m <= total <= N*X + m: the modifier
\* is the Roll's total_mod and no die carries it.
C3_TotalBounds ==
    (IsNdX \/ IsNdXMod) =>
        /\ pc # "error"
        /\ pc = "done" =>
               /\ parts[1].n + SignedM <= Roll_total(heap, ret[1])
               /\ Roll_total(heap, ret[1]) <= parts[1].n * parts[1].x + SignedM
               /\ ret[1].total_mod = SignedM
               /\ \A i \in 1..Len(ret[1].dice) : heap[ret[1].dice[i]].mod = 0

C3_Witness ==
    /\ pc = "done"
    /\ IsNdXMod
    /\ expression = <<"2", "d", "2", "-", "2">>
    /\ Roll_sum(heap, ret[1]) = 4
    /\ Roll_total(heap, ret[1]) = 2

\* C4: for 'NdX^K' / 'NdXvK' with K < N the returned Roll reports the
\* dropped dice: its dropped set holds the N-K dice not kept, raw_dice holds
\* all N dice of the group, and kept and dropped are disjoint.
C4_DroppedReported ==
    (IsNdXKeep /\ parts[1].k < parts[1].n /\ pc = "done") =>
        /\ Len(ret[1].dropped_dice) = parts[1].n - parts[1].k
        /\ Range(Roll_raw_dice(ret[1])) = 1..parts[1].n
        /\ Range(ret[1].dice) \cap Range(ret[1].dropped_dice) = {}

\* C5: for 'NdX^K' / 'NdXvK' with N >= 1, X >= 1 and any K >= 0 roll()
\* returns without error a Roll of min(K, N) dice with results in 1..X; all N
\* dice when K >= N, no dice and sum 0 when K = 0.
C5_AnyKeepCount ==
    IsNdXKeep =>
        /\ pc # "error"
        /\ pc = "done" =>
               /\ Len(ret[1].dice) = Min(parts[1].k, parts[1].n)
               /\ \A i \in 1..Len(ret[1].dice) : Results[i] \in 1..parts[1].x
               /\ parts[1].k >= parts[1].n => Range(ret[1].dice) = 1..parts[1].n
               /\ parts[1].k = 0 =>
                      ret[1].dice = <<>> /\ Roll_sum(heap, ret[1]) = 0

C5_Witness ==
    /\ pc = "done"
    /\ IsNdXKeep
    /\ expression = <<"3", "d", "2", "^", "0">>
    /\ Len(heap) = 3
    /\ ret[1].dice = <<>>
    /\ Roll_sum(heap, ret[1]) = 0

\* the expression with its whitespace removed
Squeezed == SelectSeq(expression, LAMBDA ch : ch \notin Whitespace)

\* some 'NdX' of s is immediately preceded by '-'
HasNegativeGroup(s) ==
    \E i \in 1..Len(s) :
        /\ s[i] = "-"
        /\ DigitRunEnd(s, i + 1) > i + 1
        /\ DigitRunEnd(s, i + 1) < Len(s)
        /\ s[DigitRunEnd(s, i + 1)] = "d"
        /\ IsDigit(s[DigitRunEnd(s, i + 1) + 1])

\* the dice-group tokens of the expression, in the order roll() parses them
GroupTokens == DICE_PATTERN_findall(Squeezed)

\* the dice-group token t asks for N >= 1 dice of X = 0 sides
IsEmptyDieGroup(t) ==
    LET u == IF IsSign(t[1]) THEN Tail(t) ELSE t
        b == DigitRunEnd(u, 1)
        c == DigitRunEnd(u, b + 1)
    IN  /\ int(SubSeq(u, 1, b - 1)) >= 1
        /\ int(SubSeq(u, b + 1, c - 1)) = 0

\* a dice-group of N >= 1 dice of 0 sides stands ahead of the first
\* dice-group that is preceded by '-'
EmptyDieGroupAhead ==
    \E i \in 1..Len(GroupTokens) :
        /\ IsEmptyDieGroup(GroupTokens[i])
        /\ \A j \in 1..i : GroupTokens[j][1] # "-"

\* C6, as stated: an expression in which some dice-group 'NdX' is
\* immediately preceded by '-' makes roll() fail with NotImplementedError and
\* return no Roll; without such a group, as with the '-' of a flat modifier,
\* that error is not raised.
C6_AsStated ==
    /\ HasNegativeGroup(Squeezed) =>
           /\ pc # "done"
           /\ ret = <<>>
           /\ pc = "error" => err = "NotImplementedError"
    /\ ~HasNegativeGroup(Squeezed) => err # "NotImplementedError"

\* C6, amended: an expression in which some dice-group 'NdX' is immediately
\* preceded by '-' makes roll() fail and return no Roll; the failure is
\* NotImplementedError, unless a dice-group of N >= 1 dice of 0 sides stands
\* ahead of the first such group, and then it is IndexError.  Without such a
\* group, as with the '-' of a flat modifier, NotImplementedError is not
\* raised.
C6_NegativeDiceRejected ==
    /\ HasNegativeGroup(Squeezed) =>
           /\ pc # "done"
           /\ ret = <<>>
           /\ pc = "error" =>
                  err = IF EmptyDieGroupAhead THEN "IndexError"
                        ELSE "NotImplementedError"
    /\ ~HasNegativeGroup(Squeezed) => err # "NotImplementedError"

C6_Witness ==
    /\ pc = "error"
    /\ err = "NotImplementedError"
    /\ Len(rolls) = 1
    /\ Len(heap) > 0
    /\ Len(modifier_matches) > 0
    /\ ret = <<>>

\* s holds a dice-group token, a signed-integer token
HasGroupToken(s) ==
    \E i \in 1..(Len(s) - 2) : IsDigit(s[i]) /\ s[i + 1] = "d" /\ IsDigit(s[i + 2])
HasModifierToken(s) ==
    \E i \in 1..(Len(s) - 1) : IsSign(s[i]) /\ IsDigit(s[i + 1])

\* C7: when the expression, whitespace removed, holds neither a dice-group
\* token nor a signed-integer token, roll() raises the parse error, returns no
\* Roll, and no die was created or rolled.
C7_ParseError ==
    (~HasGroupToken(Squeezed) /\ ~HasModifierToken(Squeezed)) =>
        /\ pc \in {"start", "error"}
        /\ pc = "error" => err = "Exception"
        /\ heap = <<>>
        /\ ret = <<>>

C7_Witness ==
    /\ pc = "error"
    /\ err = "Exception"
    /\ Contains(expression, "1")
    /\ Contains(expression, " ")
    /\ heap = <<>>

\* C8: a rolled Die gives raw + mod, replaced by high_face when above it
\* unless built with above_okay=True, and by low_face when below it unless
\* built with below_okay=True.
C8_ClampPerArgument ==
    (pc = "die" /\ heap[1].raw # <<>>) =>
        LET r  == heap[1].raw[1] + ctor.mod
            hi == CHOOSE a \in Range(ctor.faces) : \A b \in Range(ctor.faces) : b <= a
            lo == CHOOSE a \in Range(ctor.faces) : \A b \in Range(ctor.faces) : a <= b
        IN  Die_result(heap[1]) =
                <<IF r > hi THEN (IF ctor.above_okay THEN r ELSE hi)
                  ELSE IF r < lo THEN (IF ctor.below_okay THEN r ELSE lo)
                  ELSE r>>

\* C9: during roll() every Die created is rolled exactly once before the
\* Roll is returned: never a second draw, and one draw each at the return.
C9_RolledOnce ==
    /\ \A i \in 1..Len(heap) : Len(heap[i].drawn) <= 1
    /\ pc = "done" => \A i \in 1..Len(heap) : Len(heap[i].drawn) = 1

\* the parts are dice-groups without keep-spec ('+' before each but
\* possibly the first, N >= 1, X >= 1) and flat modifiers, with two groups
\* or more
IsGroup(p) == p.kind = "group"
SeveralGroups(ps) ==
    /\ \A i \in 1..Len(ps) :
           \/ ps[i].kind = "mod"
           \/ /\ IsGroup(ps[i]) /\ ps[i].op = "" /\ ps[i].n >= 1 /\ ps[i].x >= 1
              /\ ps[i].sign = "+" \/ (ps[i].sign = "" /\ i = 1)
    /\ Len(SelectSeq(ps, IsGroup)) >= 2

\* the sides of the dice of the groups of ps, group after group
RECURSIVE ExpectedSides(_)
ExpectedSides(ps) ==
    IF ps = <<>> THEN <<>>
    ELSE (IF IsGroup(Head(ps)) THEN [i \in 1..Head(ps).n |-> Head(ps).x] ELSE <<>>)
         \o ExpectedSides(Tail(ps))

\* the signed sum of the flat modifiers of ps
RECURSIVE ExpectedMod(_)
ExpectedMod(ps) ==
    IF ps = <<>> THEN 0
    ELSE (IF Head(ps).kind = "mod"
          THEN (IF Head(ps).sign = "-" THEN 0 - Head(ps).n ELSE Head(ps).n)
          ELSE 0)
         + ExpectedMod(Tail(ps))

\* C10: for several dice-groups without keep-spec and flat modifiers the
\* returned Roll holds the dice of all groups in group order, the dice of
\* group i with results in 1..X_i, its total_mod is the signed sum of the
\* flat modifiers and total = sum + that signed sum.
C10_GroupsAndModifiers ==
    SeveralGroups(parts) =>
        /\ pc # "error"
        /\ pc = "done" =>
               LET sides == ExpectedSides(parts)
               IN  /\ Len(ret[1].dice) = Len(sides)
                   /\ \A i \in 1..Len(sides) :
                          /\ heap[ret[1].dice[i]].faces = range(1, sides[i] + 1)
                          /\ Results[i] \in 1..sides[i]
                   /\ \A i, j \in 1..Len(sides) :
                          i < j => ret[1].dice[i] < ret[1].dice[j]
                   /\ ret[1].total_mod = ExpectedMod(parts)
                   /\ Roll_total(heap, ret[1])
                          = SumSeq(Results) + ExpectedMod(parts)

C10_Witness ==
    /\ pc = "done"
    /\ SeveralGroups(parts)
    /\ Len(SelectSeq(parts, LAMBDA p : p.kind = "mod")) >= 2
    /\ ExpectedSides(parts) = <<2, 1, 1>>
    /\ ret[1].total_mod = 0 - 1
    /\ Roll_total(heap, ret[1]) = 3
    /\ Results = <<2, 1, 1>>

====
